---- MODULE Spec2Model ----
(***************************************************************************)
(* A model of martin-usb-dmx.c: the USB write loop that renders and sends  *)
(* DMX frames, the USB read loop that drains the inbound endpoint, and the *)
(* ALSA read loop that turns MIDI events into triggers and parameters.     *)
(*                                                                         *)
(* C float values are modelled as exact rationals [n, d] in lowest terms   *)
(* (d > 0): the rounding of IEEE single precision is not modelled.         *)
(***************************************************************************)
EXTENDS Integers, Sequences, FiniteSets, TLC

(* ------------------------------------------------------------------ *)
(* Program constants                                                  *)
(* ------------------------------------------------------------------ *)
NOTE_START == 5 * 12
NOTE_END == NOTE_START + 26
FPS == 10
LEDS == 8
SPOT_START == 0
SPOT_END == 20
UNIVERSE == 512
CHUNK == 62
TIMEOUT == 3
STORE_MAX == 255
VEL_MAX == 127
PARAM_LED_GAIN == 114
PARAM_SPOT_GAIN == 117
PARAM_PIXEL_SPEED == 116
PARAM_DECAY == 113

(* ------------------------------------------------------------------ *)
(* Bounds of the model                                                *)
(* ------------------------------------------------------------------ *)
MaxSends == 6
MaxRecvs == 4
MaxTicks == 1
MaxNotes == 1
MaxControls == 2
MaxSlope == 9
MaxShift == 7
MaxNum == 12
MaxDen == 5
MaxDecay == 3
MaxSteps == 3
Levels == 2
MaxChanges == 1
MaxFrames == 3
MaxCalls == 5
MaxPasses == 300

(* ------------------------------------------------------------------ *)
(* Rational arithmetic standing for C float arithmetic                *)
(* ------------------------------------------------------------------ *)
RECURSIVE GCD(_, _)
GCD(a, b) == IF b = 0 THEN a ELSE GCD(b, a % b)

Abs(a) == IF a < 0 THEN -a ELSE a

Rat(n, d) ==
    LET s == IF d < 0 THEN -1 ELSE 1
        g == GCD(Abs(n), Abs(d))
    IN  [n |-> (s * n) \div g, d |-> (s * d) \div g]

RInt(i) == [n |-> i, d |-> 1]

LCM(a, b) == (a \div GCD(a, b)) * b

RAdd(a, b) ==
    LET m == LCM(a.d, b.d)
    IN  Rat(a.n * (m \div a.d) + b.n * (m \div b.d), m)

RNeg(a) == [n |-> -a.n, d |-> a.d]
RSub(a, b) == RAdd(a, RNeg(b))

RMul(a, b) ==
    LET g1 == GCD(Abs(a.n), b.d)
        g2 == GCD(Abs(b.n), a.d)
    IN  Rat((a.n \div g1) * (b.n \div g2), (a.d \div g2) * (b.d \div g1))

RDiv(a, b) == RMul(a, Rat(b.d, b.n))

RLt(a, b) == RSub(a, b).n < 0
RLe(a, b) == RSub(a, b).n <= 0

(* (int) conversion of a float: truncation toward zero. *)
Trunc(a) == IF a.n >= 0 THEN a.n \div a.d ELSE -((-a.n) \div a.d)

(* ------------------------------------------------------------------ *)
(* Static tables                                                      *)
(* ------------------------------------------------------------------ *)
(* midi_map with its first entry, a dead one, naming light 0. *)
midi_map_first_live ==
    << 1, 0, 1 + 0 + 128, 1 + 2 + 128, 1 + 1 + 128,
       1 + 0, 1 + 4, 1 + 1, 1 + 5, 1 + 2, 1 + 6, 1 + 3,
       0, 1 + 7, 1 + 0 + 128, 1 + 2 + 128, 1 + 1 + 128,
       1 + 0, 1 + 4, 1 + 1, 1 + 5, 1 + 2, 1 + 6, 1 + 3,
       0, 1 + 7 >>

midi_map ==
    << 0, 0, 1 + 0 + 128, 1 + 2 + 128, 1 + 1 + 128,
       1 + 0, 1 + 4, 1 + 1, 1 + 5, 1 + 2, 1 + 6, 1 + 3,
       0, 1 + 7, 1 + 0 + 128, 1 + 2 + 128, 1 + 1 + 128,
       1 + 0, 1 + 4, 1 + 1, 1 + 5, 1 + 2, 1 + 6, 1 + 3,
       0, 1 + 7 >>

led_base == << 99, 108, 117, 126, 135, 144, 153, 162 >>

offset_i(which) == led_base[which + 1] + 7
offset_r(which) == led_base[which + 1] + 0
offset_g(which) == led_base[which + 1] + 1
offset_b(which) == led_base[which + 1] + 2

(* ------------------------------------------------------------------ *)
(* Pure functions                                                     *)
(* ------------------------------------------------------------------ *)

(* store() without its clamp at 0. *)
store_no_floor(value, max) ==
    LET v == IF RLt(RInt(1), value) THEN RInt(1) ELSE value
    IN  Trunc(RMul(RInt(max), v)) % 256

(* store(): the byte written through ptr. *)
store(value, max) ==
    LET v == IF RLt(RInt(1), value) THEN RInt(1)
             ELSE IF RLt(value, RInt(0)) THEN RInt(0)
             ELSE value
    IN  Trunc(RMul(RInt(max), v)) % 256

(* convert(): the bytes written through to, in order; from is indexed    *)
(* from 0.  convert_inner is the inner loop from channel c and counter x *)
(* on: the bytes it copies.  convert_outer is the outer loop from        *)
(* channel c on: the header of a chunk, the chunk, and the rest.        *)
RECURSIVE convert_inner(_, _, _)
convert_inner(from, c, x) ==
    IF x # CHUNK /\ c # UNIVERSE
    THEN << from[c] >> \o convert_inner(from, c + 1, x + 1)
    ELSE << >>

(* convert()'s outer loop with the header's two bytes in the other order. *)
RECURSIVE convert_outer_swapped(_, _)
convert_outer_swapped(from, c) ==
    IF c # UNIVERSE
    THEN LET copied == convert_inner(from, c, 0)
         IN  << c \div 256, c % 256 >> \o copied
                 \o convert_outer_swapped(from, c + Len(copied))
    ELSE << >>

RECURSIVE convert_outer(_, _)
convert_outer(from, c) ==
    IF c # UNIVERSE
    THEN LET copied == convert_inner(from, c, 0)
         IN  << c % 256, c \div 256 >> \o copied
                 \o convert_outer(from, c + Len(copied))
    ELSE << >>

convert(from) == convert_outer(from, 0)

(* ------------------------------------------------------------------ *)
(* The image resource of picture.h (a HAVE_PICTURE build)             *)
(* ------------------------------------------------------------------ *)

(* A build without HAVE_PICTURE has no image. *)
NoPicture == [width |-> 0, height |-> 0, pixels |-> << >>]

(* The images the model is run with: width, height and the decoded     *)
(* pixels of header_data, one <<r, g, b>> per four bytes of the data.  *)
Pictures ==
    { [width |-> 3, height |-> 2,
       pixels |-> << <<0, 0, 0>>, <<0, 0, 0>>, <<0, 0, 0>>,
                     <<0, 0, 0>>, <<0, 0, 0>>, <<0, 0, 0>> >>],
      [width |-> 3, height |-> 2,
       pixels |-> << <<255, 0, 0>>, <<0, 255, 0>>, <<0, 0, 255>>,
                     <<255, 255, 255>>, <<0, 0, 0>>, <<255, 255, 0>> >>] }

VARIABLES
    picture,            \* the image compiled in, or NoPicture
    image_data,         \* image_data - header_data, in bytes
    random_value,
    rand_calls,         \* the calls of arc4random() so far
    global_decay, global_led_gain, global_spot_gain, global_pixel_speed,
    led_map,            \* value_i, value_r, value_g, value_b of each light
    \* usb_write_loop
    wpc, buffer, martin, counter, timeout_tx, x, image_ptr,
    tmp,                \* update(): the channel in hand and the values read
    sends,              \* the outcomes of usb_bulk_write so far
    ticks,              \* the render passes started so far
    \* usb_read_loop
    rpc, timeout_rx,
    recvs,              \* the outcomes of usb_bulk_read so far
    \* alsa_read_loop
    ev,                 \* the event being handled, until it is freed
    nnote,              \* the note events taken so far
    nctl,               \* the other events taken so far
    mark,               \* the frames sent when each gain was last written
    \* a pure function applied to an input of its own
    arg, res

vars == << picture, image_data, random_value, rand_calls,
           global_decay, global_led_gain, global_spot_gain, global_pixel_speed,
           led_map, wpc, buffer, martin, counter, timeout_tx, x, image_ptr,
           tmp, sends, ticks, rpc, timeout_rx, recvs, ev, nnote, nctl, mark,
           arg, res >>

globals == << global_decay, global_led_gain, global_spot_gain, global_pixel_speed >>
cursor == << image_data, random_value, rand_calls >>
writer == << wpc, buffer, martin, counter, timeout_tx, x, image_ptr, tmp,
            sends, ticks >>
reader == << rpc, timeout_rx, recvs >>
alsa == << ev, nnote, nctl, mark >>
harness == << arg, res >>

HAVE_PICTURE == picture # NoPicture
width == picture.width
height == picture.height
image_size == width * height * 4

NoEvent == [type |-> "NONE", channel |-> 0, note |-> 0, velocity |-> 0,
            param |-> 0, value |-> 0]

(* No call of update() is in progress. *)
NoTmp == [pc |-> "idle", ch |-> 0, lhs |-> 0, rhs |-> 0, pixel |-> << 0, 0, 0 >>]

Dark == [value_i |-> RInt(0), value_r |-> RInt(0),
         value_g |-> RInt(0), value_b |-> RInt(0)]

(* No gain written yet. *)
NoMark == [led |-> 0, spot |-> 0]

(* mark after a controller event of id param. *)
Marked(param) ==
    CASE param = PARAM_LED_GAIN -> [mark EXCEPT !.led = Len(sends)]
      [] param = PARAM_SPOT_GAIN -> [mark EXCEPT !.spot = Len(sends)]
      [] OTHER -> mark

(* The state after main() has started the threads, but for the image, *)
(* the universe buffer, the lights and the decay.                     *)
InitRest ==
    /\ image_data = 0
    /\ random_value = 0
    /\ rand_calls = 0
    /\ global_led_gain = RInt(0)
    /\ global_spot_gain = RInt(0)
    /\ global_pixel_speed = RInt(0)
    /\ wpc = "convert"
    /\ martin = [c \in 1 .. 530 |-> 0]
    /\ counter = 0
    /\ timeout_tx = TIMEOUT
    /\ x = 0
    /\ image_ptr = 0
    /\ tmp = NoTmp
    /\ sends = << >>
    /\ ticks = 0
    /\ rpc = "read"
    /\ timeout_rx = TIMEOUT
    /\ recvs = << >>
    /\ ev = NoEvent
    /\ nnote = 0
    /\ nctl = 0
    /\ mark = NoMark

(* The state after main() has started the threads, with or without an *)
(* image compiled in.                                                 *)
Init ==
    /\ picture \in Pictures \cup {NoPicture}
    /\ global_decay = RInt(3)
    /\ led_map = [w \in 0 .. LEDS - 1 |-> Dark]
    /\ buffer = [c \in 0 .. UNIVERSE - 1 |-> 0]
    /\ arg = 0
    /\ res = 0
    /\ InitRest

(* ------------------------------------------------------------------ *)
(* Operations on the lights and the pixel cursor                      *)
(* ------------------------------------------------------------------ *)

(* trigger() without velocity = 127 - velocity. *)
trigger_no_invert(which, velocity) ==
    IF which >= LEDS
    THEN UNCHANGED led_map
    ELSE led_map' = [led_map EXCEPT ![which] =
             [value_i |-> RDiv(RMul(@.value_i, RInt(velocity)), RInt(VEL_MAX)),
              value_r |-> RInt(1),
              value_g |-> RInt(0),
              value_b |-> RInt(0)]]

(* trigger(): velocity is a uint8_t, so 127 - velocity wraps. *)
trigger(which, velocity) ==
    IF which >= LEDS
    THEN UNCHANGED led_map
    ELSE LET v == (VEL_MAX - velocity) % 256
         IN  led_map' = [led_map EXCEPT ![which] =
                 [value_i |-> RDiv(RMul(@.value_i, RInt(v)), RInt(VEL_MAX)),
                  value_r |-> RInt(1),
                  value_g |-> RInt(0),
                  value_b |-> RInt(0)]]

(* decay_step as value = (value + (target - value)) / global_decay. *)
decay_step_paren(value, target) ==
    RDiv(RAdd(value, RSub(target, value)), global_decay)

(* One channel of update(): value += (target - value) / global_decay. *)
decay_step(value, target) ==
    RAdd(value, RDiv(RSub(target, value), global_decay))

update(which, i, r, g, b) ==
    led_map' = [led_map EXCEPT ![which] =
        [value_i |-> decay_step(@.value_i, i),
         value_r |-> decay_step(@.value_r, r),
         value_g |-> decay_step(@.value_g, g),
         value_b |-> decay_step(@.value_b, b)]]

(* store_led(): the buffer after the four stores of light which, whose  *)
(* values are those of lm.                                             *)
store_led(lm, which, ptr) ==
    LET b1 == [ptr EXCEPT ![offset_i(which)] =
                  store(RMul(lm[which].value_i, global_led_gain), STORE_MAX)]
        b2 == [b1 EXCEPT ![offset_r(which)] = store(lm[which].value_r, STORE_MAX)]
        b3 == [b2 EXCEPT ![offset_g(which)] = store(lm[which].value_g, STORE_MAX)]
    IN  [b3 EXCEPT ![offset_b(which)] = store(lm[which].value_b, STORE_MAX)]

(* update_pixel_speed() with global_pixel_speed = speed: a and b are    *)
(* arc4random() % width and arc4random() % height.  Without             *)
(* HAVE_PICTURE the function is empty.                                  *)
update_pixel_speed(speed) ==
    IF HAVE_PICTURE
    THEN \E a \in 0 .. width - 1, b \in 0 .. height - 1 :
            LET w_rand == Trunc(RMul(RInt(a), speed))
                h_rand == Trunc(RMul(RInt(b), speed))
                value == (w_rand + h_rand * width) % (image_size \div 4)
            IN  /\ random_value' = 4 * value
                /\ rand_calls' = rand_calls + 2
    ELSE UNCHANGED << random_value, rand_calls >>

(* while ((p - header_data) >= image_size) p -= image_size; *)
RECURSIVE wrap(_)
wrap(p) == IF p >= image_size THEN wrap(p - image_size) ELSE p

(* HEADER_PIXEL(p, pixel): the pixel at byte offset p. *)
HEADER_PIXEL(p) == picture.pixels[(p \div 4) + 1]

(* ------------------------------------------------------------------ *)
(* usb_write_loop                                                     *)
(* ------------------------------------------------------------------ *)

WriteConvert ==
    /\ wpc = "convert"
    /\ martin' = convert(buffer)
    /\ wpc' = "write"
    /\ UNCHANGED << picture, tmp, cursor, globals, led_map, buffer, counter,
                    timeout_tx, x, image_ptr, sends, ticks, reader, alsa, harness >>

(* WriteOk without timeout = 3. *)
WriteOkNoReset(max) ==
    /\ wpc = "write"
    /\ Len(sends) < max
    /\ sends' = Append(sends, TRUE)
    /\ wpc' = "sleep"
    /\ UNCHANGED << picture, tmp, cursor, globals, led_map, buffer, martin, counter,
                    timeout_tx, x, image_ptr, ticks, reader, alsa, harness >>

(* usb_bulk_write() returned a value >= 0. *)
WriteOk(max) ==
    /\ wpc = "write"
    /\ Len(sends) < max
    /\ sends' = Append(sends, TRUE)
    /\ timeout_tx' = TIMEOUT
    /\ wpc' = "sleep"
    /\ UNCHANGED << picture, tmp, cursor, globals, led_map, buffer, martin, counter,
                    x, image_ptr, ticks, reader, alsa, harness >>

(* WriteFail with --timeout == 0 in place of timeout-- == 0. *)
WriteFailPreDecrement(max) ==
    /\ wpc = "write"
    /\ Len(sends) < max
    /\ sends' = Append(sends, FALSE)
    /\ timeout_tx' = (timeout_tx - 1) % 256
    /\ wpc' = IF timeout_tx' = 0 THEN "halted" ELSE "sleep"
    /\ UNCHANGED << picture, tmp, cursor, globals, led_map, buffer, martin, counter,
                    x, image_ptr, ticks, reader, alsa, harness >>

(* usb_bulk_write() returned a value < 0: timeout-- == 0 on a uint8_t. *)
WriteFail(max) ==
    /\ wpc = "write"
    /\ Len(sends) < max
    /\ sends' = Append(sends, FALSE)
    /\ timeout_tx' = (timeout_tx - 1) % 256
    /\ wpc' = IF timeout_tx = 0 THEN "halted" ELSE "sleep"
    /\ UNCHANGED << picture, tmp, cursor, globals, led_map, buffer, martin, counter,
                    x, image_ptr, ticks, reader, alsa, harness >>

(* WriteAdvance without the loop that brings image_data back into    *)
(* the image.                                                          *)
WriteAdvanceNoWrap ==
    /\ wpc = "sleep"
    /\ ticks' = ticks + 1
    /\ image_data' = IF HAVE_PICTURE THEN image_data + random_value
                     ELSE image_data
    /\ x' = SPOT_START
    /\ wpc' = "spot"
    /\ UNCHANGED << picture, tmp, random_value, rand_calls, globals, led_map, buffer,
                    martin, counter, timeout_tx, image_ptr, sends, reader, alsa,
                    harness >>

(* usleep(), then the cursor's advance. *)
WriteAdvance ==
    /\ wpc = "sleep"
    /\ ticks' = ticks + 1
    /\ image_data' = IF HAVE_PICTURE THEN wrap(image_data + random_value)
                     ELSE image_data
    /\ x' = SPOT_START
    /\ wpc' = "spot"
    /\ UNCHANGED << picture, tmp, random_value, rand_calls, globals, led_map, buffer,
                    martin, counter, timeout_tx, image_ptr, sends, reader, alsa,
                    harness >>

(* WriteSpot with x != SPOT_END - 1 as the condition of the loop: the  *)
(* last channel of the range is passed over.                           *)
WriteSpotShort ==
    /\ wpc = "spot"
    /\ x # SPOT_END
    /\ buffer' = IF x # SPOT_END - 1
                 THEN [buffer EXCEPT ![x] = store(global_spot_gain, STORE_MAX)]
                 ELSE buffer
    /\ x' = x + 1
    /\ UNCHANGED << picture, tmp, cursor, globals, led_map, wpc, martin, counter,
                    timeout_tx, image_ptr, sends, ticks, reader, alsa, harness >>

(* WriteSpot with global_led_gain in place of global_spot_gain. *)
WriteSpotLedGain ==
    /\ wpc = "spot"
    /\ x # SPOT_END
    /\ buffer' = [buffer EXCEPT ![x] = store(global_led_gain, STORE_MAX)]
    /\ x' = x + 1
    /\ UNCHANGED << picture, tmp, cursor, globals, led_map, wpc, martin, counter,
                    timeout_tx, image_ptr, sends, ticks, reader, alsa, harness >>

(* One pass of the loop over the spot channels. *)
WriteSpot ==
    /\ wpc = "spot"
    /\ x # SPOT_END
    /\ buffer' = [buffer EXCEPT ![x] = store(global_spot_gain, STORE_MAX)]
    /\ x' = x + 1
    /\ UNCHANGED << picture, tmp, cursor, globals, led_map, wpc, martin, counter,
                    timeout_tx, image_ptr, sends, ticks, reader, alsa, harness >>

(* WriteSpotEnd with image_ptr = header_data in place of image_data. *)
WriteSpotEndFromStart ==
    /\ wpc = "spot"
    /\ x = SPOT_END
    /\ IF HAVE_PICTURE
       THEN /\ image_ptr' = 0
            /\ x' = 0
            /\ wpc' = "leds"
       ELSE /\ UNCHANGED << image_ptr, x >>
            /\ wpc' = "count"
    /\ UNCHANGED << picture, tmp, cursor, globals, led_map, buffer, martin, counter,
                    timeout_tx, sends, ticks, reader, alsa, harness >>

(* The spot loop ends; with HAVE_PICTURE the loop over the lights starts. *)
WriteSpotEnd ==
    /\ wpc = "spot"
    /\ x = SPOT_END
    /\ IF HAVE_PICTURE
       THEN /\ image_ptr' = image_data
            /\ x' = 0
            /\ wpc' = "leds"
       ELSE /\ UNCHANGED << image_ptr, x >>
            /\ wpc' = "count"
    /\ UNCHANGED << picture, tmp, cursor, globals, led_map, buffer, martin, counter,
                    timeout_tx, sends, ticks, reader, alsa, harness >>

(* One pass of the loop over the lights: sample, update, store_led. *)
WriteLed ==
    /\ wpc = "leds"
    /\ x # LEDS
    /\ LET p == wrap(image_ptr)
           pixel == HEADER_PIXEL(p)
       IN  /\ image_ptr' = p + 4
           /\ update(x, Rat(pixel[1] + pixel[2] + pixel[3], 255 * 3),
                     Rat(pixel[1], 255), Rat(pixel[2], 255), Rat(pixel[3], 255))
           /\ buffer' = store_led(led_map', x, buffer)
    /\ x' = x + 1
    /\ UNCHANGED << picture, tmp, cursor, globals, wpc, martin, counter,
                    timeout_tx, sends, ticks, reader, alsa, harness >>

(* The same pass of the loop over the lights one access to led_map at  *)
(* a time.  A line of update(), value += (target - value) / decay, is  *)
(* a read of the value for the left side, a read of it for the         *)
(* subtraction and a write, as an unoptimised build compiles it; a     *)
(* build that reads the value once behaves as the runs in which no     *)
(* other thread writes between the two reads.                          *)
Channels == << "value_i", "value_r", "value_g", "value_b" >>

(* The targets update() is called with for a pixel. *)
Targets(pixel) ==
    << Rat(pixel[1] + pixel[2] + pixel[3], 255 * 3),
       Rat(pixel[1], 255), Rat(pixel[2], 255), Rat(pixel[3], 255) >>

(* HEADER_PIXEL(image_ptr, pixels[x]) and the call of update(). *)
UpdateCall ==
    /\ wpc = "leds"
    /\ x # LEDS
    /\ tmp.pc = "idle"
    /\ LET p == wrap(image_ptr)
       IN  /\ image_ptr' = p + 4
           /\ tmp' = [NoTmp EXCEPT !.pc = "lhs", !.ch = 1, !.pixel = HEADER_PIXEL(p)]
    /\ UNCHANGED << picture, cursor, globals, led_map, wpc, buffer, martin, counter,
                    timeout_tx, x, sends, ticks, reader, alsa, harness >>

(* The read of the channel's value for the left side of +=. *)
UpdateReadLhs ==
    /\ wpc = "leds"
    /\ tmp.pc = "lhs"
    /\ tmp' = [tmp EXCEPT !.pc = "rhs", !.lhs = led_map[x][Channels[tmp.ch]]]
    /\ UNCHANGED << picture, cursor, globals, led_map, wpc, buffer, martin, counter,
                    timeout_tx, x, image_ptr, sends, ticks, reader, alsa, harness >>

(* The read of the channel's value for target - value. *)
UpdateReadRhs ==
    /\ wpc = "leds"
    /\ tmp.pc = "rhs"
    /\ tmp' = [tmp EXCEPT !.pc = "write", !.rhs = led_map[x][Channels[tmp.ch]]]
    /\ UNCHANGED << picture, cursor, globals, led_map, wpc, buffer, martin, counter,
                    timeout_tx, x, image_ptr, sends, ticks, reader, alsa, harness >>

(* The read of global_decay and the write of the channel's new value. *)
UpdateWrite ==
    /\ wpc = "leds"
    /\ tmp.pc = "write"
    /\ led_map' = [led_map EXCEPT ![x][Channels[tmp.ch]] =
           RAdd(tmp.lhs, RDiv(RSub(Targets(tmp.pixel)[tmp.ch], tmp.rhs), global_decay))]
    /\ tmp' = IF tmp.ch = Len(Channels)
              THEN [NoTmp EXCEPT !.pc = "store"]
              ELSE [NoTmp EXCEPT !.pc = "lhs", !.ch = tmp.ch + 1, !.pixel = tmp.pixel]
    /\ UNCHANGED << picture, cursor, globals, wpc, buffer, martin, counter,
                    timeout_tx, x, image_ptr, sends, ticks, reader, alsa, harness >>

(* store_led(x, buffer), and the next light. *)
StoreLed ==
    /\ wpc = "leds"
    /\ tmp.pc = "store"
    /\ buffer' = store_led(led_map, x, buffer)
    /\ x' = x + 1
    /\ tmp' = NoTmp
    /\ UNCHANGED << picture, cursor, globals, led_map, wpc, martin, counter,
                    timeout_tx, image_ptr, sends, ticks, reader, alsa, harness >>

WriteLedEnd ==
    /\ wpc = "leds"
    /\ x = LEDS
    /\ wpc' = "count"
    /\ UNCHANGED << picture, tmp, cursor, globals, led_map, buffer, martin, counter,
                    timeout_tx, x, image_ptr, sends, ticks, reader, alsa, harness >>

(* WriteCount with counter++ in place of ++counter. *)
WriteCountPostIncrement ==
    /\ wpc = "count"
    /\ IF counter = 30 * FPS
       THEN /\ counter' = 0
            /\ update_pixel_speed(global_pixel_speed)
       ELSE /\ counter' = counter + 1
            /\ UNCHANGED << random_value, rand_calls >>
    /\ wpc' = "convert"
    /\ UNCHANGED << picture, tmp, image_data, globals, led_map, buffer, martin,
                    timeout_tx, x, image_ptr, sends, ticks, reader, alsa, harness >>

(* if (++counter == 30 * FPS) { counter = 0; update_pixel_speed(); } *)
WriteCount ==
    /\ wpc = "count"
    /\ IF counter + 1 = 30 * FPS
       THEN /\ counter' = 0
            /\ update_pixel_speed(global_pixel_speed)
       ELSE /\ counter' = counter + 1
            /\ UNCHANGED << random_value, rand_calls >>
    /\ wpc' = "convert"
    /\ UNCHANGED << picture, tmp, image_data, globals, led_map, buffer, martin,
                    timeout_tx, x, image_ptr, sends, ticks, reader, alsa, harness >>

(* The steps of the loop other than the call of usb_bulk_write. *)
render ==
    \/ WriteConvert
    \/ WriteAdvance
    \/ WriteSpot
    \/ WriteSpotEnd
    \/ WriteLed
    \/ WriteLedEnd
    \/ WriteCount

usb_write_loop(max) ==
    \/ render
    \/ WriteOk(max)
    \/ WriteFail(max)

(* ------------------------------------------------------------------ *)
(* usb_read_loop                                                      *)
(* ------------------------------------------------------------------ *)

ReadOk ==
    /\ rpc = "read"
    /\ Len(recvs) < MaxRecvs
    /\ recvs' = Append(recvs, TRUE)
    /\ timeout_rx' = TIMEOUT
    /\ UNCHANGED << picture, cursor, globals, led_map, writer, rpc, alsa, harness >>

(* ReadFail counting on the write loop's counter. *)
ReadFailShared ==
    /\ rpc = "read"
    /\ Len(recvs) < MaxRecvs
    /\ recvs' = Append(recvs, FALSE)
    /\ timeout_tx' = (timeout_tx - 1) % 256
    /\ rpc' = IF timeout_tx = 0 THEN "halted" ELSE "read"
    /\ UNCHANGED << picture, cursor, globals, led_map, wpc, buffer, martin, counter,
                    x, image_ptr, tmp, sends, ticks, timeout_rx, alsa, harness >>

(* usb_bulk_read() returned a value < 0: timeout-- == 0 on a uint8_t. *)
ReadFail ==
    /\ rpc = "read"
    /\ Len(recvs) < MaxRecvs
    /\ recvs' = Append(recvs, FALSE)
    /\ timeout_rx' = (timeout_rx - 1) % 256
    /\ rpc' = IF timeout_rx = 0 THEN "halted" ELSE "read"
    /\ UNCHANGED << picture, cursor, globals, led_map, writer, alsa, harness >>

usb_read_loop == ReadOk \/ ReadFail

(* ------------------------------------------------------------------ *)
(* alsa_read_loop                                                     *)
(* ------------------------------------------------------------------ *)

(* The events the model delivers. *)
Notes == (NOTE_START - 1) .. NOTE_END
Velocities == {0, 64, 127}
NoteInputs ==
    { << 0, note, velocity >> : note \in Notes, velocity \in Velocities }
        \cup { << 1, NOTE_START + 5, 0 >> }
Params == {PARAM_DECAY, PARAM_LED_GAIN, PARAM_PIXEL_SPEED, PARAM_SPOT_GAIN, 7}
Values == {0, 1, 64, 127}

NoteOnEvent(channel, note, velocity) ==
    [type |-> "NOTEON", channel |-> channel, note |-> note,
     velocity |-> velocity, param |-> 0, value |-> 0]

ControllerEvent(param, value) ==
    [type |-> "CONTROLLER", channel |-> 0, note |-> 0, velocity |-> 0,
     param |-> param, value |-> value]

OtherEvent == [NoEvent EXCEPT !.type = "OTHER"]

(* NoteOn with the 0x80 flag of the map's entry masked off. *)
NoteOnMasked(channel, note, velocity) ==
    IF \/ channel # 0
       \/ note < NOTE_START
       \/ note >= NOTE_END
       \/ midi_map[note - NOTE_START + 1] = 0
    THEN UNCHANGED led_map
    ELSE trigger(((midi_map[note - NOTE_START + 1] % 128) - 1) % 256, velocity)

(* case SND_SEQ_EVENT_NOTEON *)
NoteOn(channel, note, velocity) ==
    IF \/ channel # 0
       \/ note < NOTE_START
       \/ note >= NOTE_END
       \/ midi_map[note - NOTE_START + 1] = 0
    THEN UNCHANGED led_map
    ELSE trigger((midi_map[note - NOTE_START + 1] - 1) % 256, velocity)

(* Controller without the call of update_pixel_speed(). *)
ControllerNoRecompute(param, value) ==
    CASE param = PARAM_LED_GAIN ->
            /\ global_led_gain' = Rat(value, 127)
            /\ UNCHANGED << global_spot_gain, global_pixel_speed, global_decay,
                            random_value, rand_calls >>
      [] param = PARAM_SPOT_GAIN ->
            /\ global_spot_gain' = Rat(value, 127)
            /\ UNCHANGED << global_led_gain, global_pixel_speed, global_decay,
                            random_value, rand_calls >>
      [] param = PARAM_PIXEL_SPEED ->
            /\ global_pixel_speed' = Rat(value, 127)
            /\ UNCHANGED << global_led_gain, global_spot_gain, global_decay,
                            random_value, rand_calls >>
      [] param = PARAM_DECAY ->
            /\ global_decay' = RInt(value + 1)
            /\ UNCHANGED << global_led_gain, global_spot_gain, global_pixel_speed,
                            random_value, rand_calls >>
      [] OTHER ->
            UNCHANGED << globals, random_value, rand_calls >>

(* Controller with global_decay = value in place of value + 1. *)
ControllerRawDecay(param, value) ==
    CASE param = PARAM_LED_GAIN ->
            /\ global_led_gain' = Rat(value, 127)
            /\ UNCHANGED << global_spot_gain, global_pixel_speed, global_decay,
                            random_value, rand_calls >>
      [] param = PARAM_SPOT_GAIN ->
            /\ global_spot_gain' = Rat(value, 127)
            /\ UNCHANGED << global_led_gain, global_pixel_speed, global_decay,
                            random_value, rand_calls >>
      [] param = PARAM_PIXEL_SPEED ->
            /\ global_pixel_speed' = Rat(value, 127)
            /\ update_pixel_speed(global_pixel_speed')
            /\ UNCHANGED << global_led_gain, global_spot_gain, global_decay >>
      [] param = PARAM_DECAY ->
            /\ global_decay' = RInt(value)
            /\ UNCHANGED << global_led_gain, global_spot_gain, global_pixel_speed,
                            random_value, rand_calls >>
      [] OTHER ->
            UNCHANGED << globals, random_value, rand_calls >>

(* Controller with the cases of the two gains exchanged. *)
ControllerSwappedGains(param, value) ==
    CASE param = PARAM_SPOT_GAIN ->
            /\ global_led_gain' = Rat(value, 127)
            /\ UNCHANGED << global_spot_gain, global_pixel_speed, global_decay,
                            random_value, rand_calls >>
      [] param = PARAM_LED_GAIN ->
            /\ global_spot_gain' = Rat(value, 127)
            /\ UNCHANGED << global_led_gain, global_pixel_speed, global_decay,
                            random_value, rand_calls >>
      [] param = PARAM_PIXEL_SPEED ->
            /\ global_pixel_speed' = Rat(value, 127)
            /\ update_pixel_speed(global_pixel_speed')
            /\ UNCHANGED << global_led_gain, global_spot_gain, global_decay >>
      [] param = PARAM_DECAY ->
            /\ global_decay' = RInt(value + 1)
            /\ UNCHANGED << global_led_gain, global_spot_gain, global_pixel_speed,
                            random_value, rand_calls >>
      [] OTHER ->
            UNCHANGED << globals, random_value, rand_calls >>

(* case SND_SEQ_EVENT_CONTROLLER *)
Controller(param, value) ==
    CASE param = PARAM_LED_GAIN ->
            /\ global_led_gain' = Rat(value, 127)
            /\ UNCHANGED << global_spot_gain, global_pixel_speed, global_decay,
                            random_value, rand_calls >>
      [] param = PARAM_SPOT_GAIN ->
            /\ global_spot_gain' = Rat(value, 127)
            /\ UNCHANGED << global_led_gain, global_pixel_speed, global_decay,
                            random_value, rand_calls >>
      [] param = PARAM_PIXEL_SPEED ->
            /\ global_pixel_speed' = Rat(value, 127)
            /\ update_pixel_speed(global_pixel_speed')
            /\ UNCHANGED << global_led_gain, global_spot_gain, global_decay >>
      [] param = PARAM_DECAY ->
            /\ global_decay' = RInt(value + 1)
            /\ UNCHANGED << global_led_gain, global_spot_gain, global_pixel_speed,
                            random_value, rand_calls >>
      [] OTHER ->
            UNCHANGED << globals, random_value, rand_calls >>

(* snd_seq_event_input() returned a note-on event: its case runs. *)
AlsaNoteOn ==
    /\ ev = NoEvent
    /\ nnote < MaxNotes
    /\ \E in \in NoteInputs :
          /\ ev' = NoteOnEvent(in[1], in[2], in[3])
          /\ NoteOn(in[1], in[2], in[3])
    /\ nnote' = nnote + 1
    /\ UNCHANGED << picture, cursor, globals, writer, reader, nctl, mark,
                    harness >>

(* snd_seq_event_input() returned a controller event: its case runs. *)
AlsaController ==
    /\ ev = NoEvent
    /\ nctl < MaxControls
    /\ \E param \in Params, value \in Values :
          /\ ev' = ControllerEvent(param, value)
          /\ Controller(param, value)
    /\ nctl' = nctl + 1
    /\ mark' = Marked(ev'.param)
    /\ UNCHANGED << picture, image_data, led_map, writer, reader, nnote, harness >>

(* default: an event of any other type *)
AlsaOther ==
    /\ ev = NoEvent
    /\ nctl < MaxControls
    /\ ev' = OtherEvent
    /\ nctl' = nctl + 1
    /\ UNCHANGED << picture, cursor, globals, led_map, writer, reader, nnote,
                    mark, harness >>

(* snd_seq_free_event(ev), and the loop waits for the next event. *)
AlsaFree ==
    /\ ev # NoEvent
    /\ ev' = NoEvent
    /\ UNCHANGED << picture, cursor, globals, led_map, writer, reader, nnote,
                    nctl, mark, harness >>

alsa_read_loop == AlsaNoteOn \/ AlsaController \/ AlsaOther \/ AlsaFree

(* AlsaNoteOn for a source that sends only the note events of inputs,  *)
(* and at most max of them.                                            *)
AlsaNoteOnOf(inputs, max) ==
    /\ ev = NoEvent
    /\ nnote < max
    /\ \E in \in inputs :
          /\ ev' = NoteOnEvent(in[1], in[2], in[3])
          /\ NoteOn(in[1], in[2], in[3])
    /\ nnote' = nnote + 1
    /\ UNCHANGED << picture, cursor, globals, writer, reader, nctl, mark,
                    harness >>

(* AlsaController for a source that sends only controller events with  *)
(* an id in params and a value in values, and at most max of them.     *)
AlsaControllerOf(params, values, max) ==
    /\ ev = NoEvent
    /\ nctl < max
    /\ \E param \in params, value \in values :
          /\ ev' = ControllerEvent(param, value)
          /\ Controller(param, value)
    /\ nctl' = nctl + 1
    /\ mark' = Marked(ev'.param)
    /\ UNCHANGED << picture, image_data, led_map, writer, reader, nnote, harness >>

(* Pixel-speed events at half and at full speed. *)
AlsaSpeed == AlsaControllerOf({PARAM_PIXEL_SPEED}, {64, 127}, MaxChanges)

(* ------------------------------------------------------------------ *)
(* Specifications                                                     *)
(* ------------------------------------------------------------------ *)

(* The three loops together. *)
Next ==
    \/ usb_write_loop(MaxTicks)
    \/ usb_read_loop
    \/ alsa_read_loop

Spec == Init /\ [][Next]_vars

(* The write loop alone, over every sequence of MaxSends outcomes of   *)
(* usb_bulk_write.                                                     *)
NextWrite == usb_write_loop(MaxSends)

SpecWrite == Init /\ [][NextWrite]_vars

(* The write loop on a transport that does not fail, with the note     *)
(* events of the ALSA loop.                                            *)
NextNote ==
    \/ render
    \/ WriteOk(MaxTicks)
    \/ AlsaNoteOn
    \/ AlsaFree

SpecNote == Init /\ [][NextNote]_vars

(* The ALSA loop alone, while the write loop waits in usb_bulk_write. *)
NextAlsa == alsa_read_loop

SpecAlsa == Init /\ [][NextAlsa]_vars

(* The write loop on a transport that does not fail, with pixel-speed  *)
(* events of the ALSA loop.                                            *)
NextCursor ==
    \/ render
    \/ WriteOk(MaxTicks)
    \/ AlsaSpeed
    \/ AlsaFree

SpecCursor == Init /\ [][NextCursor]_vars

(* The image of Pictures whose pixels are all black. *)
BlackPicture ==
    CHOOSE p \in Pictures : \A k \in 1 .. Len(p.pixels) : p.pixels[k] = << 0, 0, 0 >>

(* A build without the image or with the black one: the lights stay    *)
(* dark however many passes are made.                                  *)
InitLong ==
    /\ Init
    /\ picture \in {NoPicture, BlackPicture}

(* Note-on events on G0, the note of light 1. *)
RaceNotes == { << 0, NOTE_START + 7, 0 >>, << 0, NOTE_START + 7, 64 >> }

AlsaNoteOnLight == AlsaNoteOnOf(RaceNotes, MaxNotes)

(* The write loop on a transport that does not fail, its pass over the *)
(* lights taken one access to led_map at a time, with note-on events   *)
(* on one light; trigger() is taken as one step.                       *)
NextRace ==
    \/ WriteConvert
    \/ WriteOk(MaxTicks)
    \/ WriteAdvance
    \/ WriteSpot
    \/ WriteSpotEnd
    \/ UpdateCall
    \/ UpdateReadLhs
    \/ UpdateReadRhs
    \/ UpdateWrite
    \/ StoreLed
    \/ WriteLedEnd
    \/ WriteCount
    \/ AlsaNoteOnLight
    \/ AlsaFree

SpecRace == Init /\ [][NextRace]_vars

(* Gain events: both gains, at half value. *)
GainValues == { 64 }

AlsaGain ==
    AlsaControllerOf({PARAM_LED_GAIN, PARAM_SPOT_GAIN}, GainValues, MaxChanges)

(* The write loop on a transport that does not fail, for MaxFrames     *)
(* frames, with gain events.                                           *)
NextGain ==
    \/ render
    \/ WriteOk(MaxFrames)
    \/ AlsaGain
    \/ AlsaFree

SpecGain == Init /\ [][NextGain]_vars

(* The write loop on a transport that does not fail, for MaxFrames     *)
(* frames, with pixel-speed events.                                    *)
NextFrame ==
    \/ render
    \/ WriteOk(MaxFrames)
    \/ AlsaSpeed
    \/ AlsaFree

SpecFrame == Init /\ [][NextFrame]_vars

(* A controller event with an id that the ALSA loop does not know. *)
AlsaIgnored == AlsaControllerOf({7}, {0}, MaxChanges)

(* The three loops: the write loop on a transport that accepts a frame *)
(* only among the first MaxTicks and fails up to MaxCalls times, the   *)
(* read loop over every sequence of MaxRecvs outcomes, and the ALSA    *)
(* loop with events it ignores.                                        *)
NextHalt ==
    \/ render
    \/ WriteOk(MaxTicks)
    \/ WriteFail(MaxCalls)
    \/ usb_read_loop
    \/ AlsaIgnored
    \/ AlsaFree

SpecHalt == InitLong /\ [][NextHalt]_vars

(* A pixel-speed event at full speed that is handled before the write  *)
(* loop has encoded its first frame.                                   *)
EarlySpeed ==
    /\ wpc = "convert"
    /\ sends = << >>
    /\ ticks = 0
    /\ AlsaControllerOf({PARAM_PIXEL_SPEED}, {127}, MaxChanges)

(* The write loop over MaxPasses passes on a transport that does not   *)
(* fail, after pixel-speed events that came before its first frame.    *)
NextLong ==
    \/ render
    \/ WriteOk(MaxPasses)
    \/ EarlySpeed
    \/ AlsaFree

SpecLong == InitLong /\ [][NextLong]_vars

(* ------------------------------------------------------------------ *)
(* convert() on universes of its own                                  *)
(* ------------------------------------------------------------------ *)

Universes ==
    { [c \in 0 .. UNIVERSE - 1 |-> (slope * c + shift) % 256] :
          slope \in 0 .. MaxSlope, shift \in 0 .. MaxShift }

InitConvert ==
    /\ picture = NoPicture
    /\ global_decay = RInt(3)
    /\ led_map = [w \in 0 .. LEDS - 1 |-> Dark]
    /\ buffer \in Universes
    /\ arg = 0
    /\ res = 0
    /\ InitRest

SpecConvert == InitConvert /\ [][WriteConvert]_vars

(* ------------------------------------------------------------------ *)
(* store() on values of its own                                       *)
(* ------------------------------------------------------------------ *)

StoreInputs == { Rat(n, d) : n \in (-MaxNum) .. MaxNum, d \in 1 .. MaxDen }

InitStore ==
    /\ picture = NoPicture
    /\ global_decay = RInt(3)
    /\ led_map = [w \in 0 .. LEDS - 1 |-> Dark]
    /\ buffer = [c \in 0 .. UNIVERSE - 1 |-> 0]
    /\ arg \in StoreInputs
    /\ res = -1
    /\ InitRest

(* store(arg, &res, 255) *)
StoreApply ==
    /\ res = -1
    /\ res' = store(arg, STORE_MAX)
    /\ UNCHANGED << picture, cursor, globals, led_map, writer, reader, alsa, arg >>

SpecStore == InitStore /\ [][StoreApply]_vars

(* ------------------------------------------------------------------ *)
(* update() repeated on one light with a constant target              *)
(* ------------------------------------------------------------------ *)

Grid == { Rat(n, Levels) : n \in 0 .. Levels }

(* arg holds the light and the target; res counts the calls. *)
InitDecay ==
    /\ picture = NoPicture
    /\ global_decay \in { RInt(k) : k \in 1 .. MaxDecay }
    /\ \E which \in {0, LEDS - 1}, vi \in Grid, vr \in Grid, ti \in Grid, tr \in Grid :
          /\ led_map = [w \in 0 .. LEDS - 1 |->
                           IF w = which
                           THEN [value_i |-> vi, value_r |-> vr,
                                 value_g |-> RInt(0), value_b |-> RInt(1)]
                           ELSE Dark]
          /\ arg = [which |-> which, i |-> ti, r |-> tr,
                    g |-> RInt(1), b |-> RInt(0)]
    /\ buffer = [c \in 0 .. UNIVERSE - 1 |-> 0]
    /\ res = 0
    /\ InitRest

(* update(arg.which, arg.i, arg.r, arg.g, arg.b) *)
DecayApply ==
    /\ res < MaxSteps
    /\ res' = res + 1
    /\ update(arg.which, arg.i, arg.r, arg.g, arg.b)
    /\ UNCHANGED << picture, cursor, globals, writer, reader, alsa, arg >>

SpecDecay == InitDecay /\ [][DecayApply]_vars

(* ------------------------------------------------------------------ *)
(* Properties                                                         *)
(* ------------------------------------------------------------------ *)

(* The failures that end the sequence h of transport outcomes. *)
RECURSIVE FailRun(_)
FailRun(h) ==
    IF h = << >> \/ h[Len(h)] THEN 0
    ELSE 1 + FailRun(SubSeq(h, 1, Len(h) - 1))

(* The longest run of failures in h. *)
RECURSIVE MaxRun(_)
MaxRun(h) ==
    IF h = << >> THEN 0
    ELSE LET rest == MaxRun(SubSeq(h, 1, Len(h) - 1))
         IN  IF FailRun(h) > rest THEN FailRun(h) ELSE rest

(* The failures in h. *)
Fails(h) == Cardinality({ k \in 1 .. Len(h) : ~h[k] })

(* C1, as the claim states it: once three sends in a row have failed   *)
(* the write loop has ended, so that no fourth send of that run of     *)
(* failures is attempted.                                              *)
C1_HaltsOnThird == FailRun(sends) >= 3 => wpc = "halted"

(* C1, amended: the write loop ends on the fourth failure in a row.    *)
(* It has ended exactly when the last four sends all failed; a run of  *)
(* failures is never longer than four, so no fifth send of the run is  *)
(* attempted and nothing is sent after the loop has ended.             *)
C1_HaltsOnFourth ==
    /\ FailRun(sends) <= 4
    /\ wpc = "halted" <=> FailRun(sends) = 4

(* C1's case: the loop ended by four failures that follow a success. *)
C1_Witness ==
    /\ wpc = "halted"
    /\ Len(sends) > 4
    /\ FailRun(sends) = 4

(* C2: a success sets the failure counter back to its initial value,   *)
(* and while no run of failures has reached four (the number that      *)
(* ends the loop) the loop has not ended, however many sends failed.   *)
C2_SuccessResets ==
    /\ (sends # << >> /\ sends[Len(sends)] /\ wpc = "sleep")
           => timeout_tx = TIMEOUT
    /\ MaxRun(sends) < 4 => wpc # "halted"

(* C2's case: five failures in all, no four of them in a row, and the  *)
(* loop still runs.                                                    *)
C2_Witness ==
    /\ Fails(sends) >= 5
    /\ MaxRun(sends) < 4
    /\ wpc # "halted"

(* C3: convert writes exactly 530 bytes in 9 chunks; chunk k starts     *)
(* with the little-endian channel index 62 * k and carries the         *)
(* channels 62 * k .. min(62 * k + 61, 511), so the last chunk carries  *)
(* 16; stripping the headers gives back the universe.                  *)
C3_Decode(frame) ==
    [c \in 0 .. 511 |-> frame[(c \div 62) * 64 + 2 + (c % 62) + 1]]

C3_FrameLayout ==
    wpc = "write" =>
        /\ Len(martin) = 530
        /\ \A k \in 0 .. 8 :
              LET last == IF 62 * k + 61 < 511 THEN 62 * k + 61 ELSE 511
              IN  /\ martin[64 * k + 1] = (62 * k) % 256
                  /\ martin[64 * k + 2] = (62 * k) \div 256
                  /\ \A c \in 62 * k .. last :
                        martin[64 * k + 2 + (c - 62 * k) + 1] = buffer[c]
                  /\ k = 8 => last - 62 * k + 1 = 16
                  /\ k = 8 => 64 * k + 2 + (last - 62 * k) + 1 = 530
        /\ C3_Decode(martin) = buffer

(* C3's case: a frame made from a universe whose channels differ. *)
C3_Witness ==
    /\ wpc = "write"
    /\ Len(martin) = 530
    /\ buffer[0] # buffer[1]
    /\ buffer[511] # 0
    /\ martin[530] = buffer[511]

(* A step of the ALSA loop that takes a note-on event. *)
NoteStep == ev = NoEvent /\ ev'.type = "NOTEON"

InRange(e) == e.note >= NOTE_START /\ e.note < NOTE_END
Entry(e) == midi_map[e.note - NOTE_START + 1]

(* The notes of the map whose entry is "no light": C0, D0B, C1, C2. *)
DeadNotes == { NOTE_START, NOTE_START + 1, NOTE_START + 12, NOTE_START + 24 }

(* Light i of lm after a trigger of raw magnitude m. *)
Triggered(lm, i, m) ==
    [value_i |-> Rat(lm[i].value_i.n * (127 - m), lm[i].value_i.d * 127),
     value_r |-> RInt(1), value_g |-> RInt(0), value_b |-> RInt(0)]

(* C4: trigger(i, m) on a light i in 0..7 leaves it with (red, green,    *)
(* blue) = (1, 0, 0) and intensity prior * (127 - m) / 127, whatever its *)
(* state was, and changes no other light and no global parameter.        *)
C4_TriggerEffect ==
    [][ (NoteStep /\ ev'.channel = 0 /\ InRange(ev') /\ Entry(ev') \in 1 .. 8)
            => /\ led_map' = [led_map EXCEPT ![Entry(ev') - 1] =
                                 Triggered(led_map, Entry(ev') - 1, ev'.velocity)]
               /\ UNCHANGED globals ]_vars

(* C4's case: a trigger of magnitude 64 on a light whose intensity was  *)
(* not 0: the light is red and its intensity a multiple of 1/127.       *)
C4_Witness ==
    /\ ev.type = "NOTEON" /\ ev.channel = 0 /\ InRange(ev)
    /\ Entry(ev) \in 1 .. 8
    /\ ev.velocity = 64
    /\ led_map[Entry(ev) - 1].value_i.n # 0
    /\ led_map[Entry(ev) - 1].value_i.d % 127 = 0
    /\ led_map[Entry(ev) - 1].value_r = RInt(1)

(* C5: a note-on event whose note lies outside the 26 mapped notes, or  *)
(* whose entry in the map is "no light", changes no light and no        *)
(* global parameter, whatever its magnitude.                            *)
C5_UnmappedNoChange ==
    [][ (NoteStep /\ (~InRange(ev') \/ ev'.note \in DeadNotes))
            => /\ UNCHANGED << led_map, globals >>
               /\ NOTE_END - NOTE_START = 26
               /\ Len(midi_map) = 26
               /\ DeadNotes = { n \in NOTE_START .. NOTE_END - 1 :
                                  midi_map[n - NOTE_START + 1] = 0 } ]_vars

(* C5's case: a note-on event on a dead note of the map while a light   *)
(* is lit.                                                              *)
C5_Witness ==
    /\ ev.type = "NOTEON" /\ ev.channel = 0
    /\ ev.note = NOTE_START + 12
    /\ \E i \in 0 .. LEDS - 1 : led_map[i].value_i.n # 0

(* C6, as the claim states it: a note-on event on a note whose entry    *)
(* names a light, plain or with the 0x80 flag, triggers that light.     *)
C6_BothPolarities ==
    [][ (NoteStep /\ ev'.channel = 0 /\ InRange(ev') /\ Entry(ev') # 0)
            => LET i == (Entry(ev') % 128) - 1
               IN  /\ i \in 0 .. LEDS - 1
                   /\ led_map' = [led_map EXCEPT ![i] =
                                     Triggered(led_map, i, ev'.velocity)] ]_vars

(* C6, amended: a note-on event on channel 0 on a note whose entry is   *)
(* the plain value triggers the light it names; on a note whose entry   *)
(* carries the 0x80 flag, trigger is called with an index of 128 or     *)
(* more, which it rejects, and no light changes.                        *)
C6_PlainOnly ==
    [][ (NoteStep /\ ev'.channel = 0 /\ InRange(ev') /\ Entry(ev') # 0)
            => IF Entry(ev') < 128
               THEN /\ Entry(ev') - 1 \in 0 .. LEDS - 1
                    /\ led_map' = [led_map EXCEPT ![Entry(ev') - 1] =
                           Triggered(led_map, Entry(ev') - 1, ev'.velocity)]
               ELSE /\ Entry(ev') - 128 - 1 \in 0 .. LEDS - 1
                    /\ UNCHANGED led_map ]_vars

(* C6's case: a note-on event on a note whose entry carries the flag,   *)
(* while the light the entry names is lit and not red.                  *)
C6_Witness ==
    /\ ev.type = "NOTEON" /\ ev.channel = 0 /\ InRange(ev)
    /\ Entry(ev) >= 128
    /\ led_map[Entry(ev) - 129].value_i.n # 0
    /\ led_map[Entry(ev) - 129].value_r # RInt(1)

(* A step of the ALSA loop that takes a controller event. *)
ControlStep == ev = NoEvent /\ ev'.type = "CONTROLLER"

(* The jump sizes update_pixel_speed() can draw at a pixel speed. *)
JumpSizes(speed) ==
    { 4 * ((Trunc(RMul(RInt(a), speed)) + Trunc(RMul(RInt(b), speed)) * width)
               % (width * height)) :
          a \in 0 .. width - 1, b \in 0 .. height - 1 }

(* C7: the step that handles a pixel-speed event sets pixel_speed and,  *)
(* in a build with the image, draws a new jump size from the new        *)
(* pixel_speed, before the event is freed and the next one taken; the   *)
(* write loop's tick counter plays no part and is left as it is.        *)
C7_SpeedRecomputes ==
    [][ (ControlStep /\ ev'.param = PARAM_PIXEL_SPEED)
            => /\ global_pixel_speed' = Rat(ev'.value, 127)
               /\ counter' = counter
               /\ HAVE_PICTURE =>
                      /\ rand_calls' = rand_calls + 2
                      /\ random_value' \in JumpSizes(global_pixel_speed') ]_vars

(* C7's case: the second pixel-speed event, at full speed, is being     *)
(* handled and the jump size is already the largest one.                *)
C7_Witness ==
    /\ ev.type = "CONTROLLER" /\ ev.param = PARAM_PIXEL_SPEED
    /\ ev.value = 127
    /\ HAVE_PICTURE
    /\ rand_calls = 4
    /\ random_value = 4 * (width * height - 1)

InUnit(q) == 0 <= q.n /\ q.n <= q.d

(* C8: a controller event with a recognised id and a value in 0..127    *)
(* writes exactly one of led_gain, spot_gain, pixel_speed (value / 127, *)
(* within [0, 1]) or decay (value + 1) and leaves the other three and   *)
(* the eight lights as they are; a controller event with another id,    *)
(* or an event that is neither a note-on nor a controller event,        *)
(* changes no global parameter and no light.                            *)
C8_OneParameter ==
    [][ (ev = NoEvent /\ ev'.type \in {"CONTROLLER", "OTHER"})
            => LET q == [n |-> ev'.value \div GCD(ev'.value, 127),
                         d |-> 127 \div GCD(ev'.value, 127)]
               IN  /\ UNCHANGED led_map
                   /\ ev'.value \in 0 .. 127
                   /\ InUnit(q)
                   /\ CASE ev'.type = "CONTROLLER" /\ ev'.param = 114 ->
                              /\ global_led_gain' = q
                              /\ UNCHANGED << global_spot_gain, global_pixel_speed,
                                              global_decay >>
                        [] ev'.type = "CONTROLLER" /\ ev'.param = 117 ->
                              /\ global_spot_gain' = q
                              /\ UNCHANGED << global_led_gain, global_pixel_speed,
                                              global_decay >>
                        [] ev'.type = "CONTROLLER" /\ ev'.param = 116 ->
                              /\ global_pixel_speed' = q
                              /\ UNCHANGED << global_led_gain, global_spot_gain,
                                              global_decay >>
                        [] ev'.type = "CONTROLLER" /\ ev'.param = 113 ->
                              /\ global_decay' = [n |-> ev'.value + 1, d |-> 1]
                              /\ UNCHANGED << global_led_gain, global_spot_gain,
                                              global_pixel_speed >>
                        [] OTHER -> UNCHANGED globals ]_vars

(* C8's case: a decay event is being handled after a gain was set and   *)
(* a light was triggered.                                               *)
C8_Witness ==
    /\ ev.type = "CONTROLLER" /\ ev.param = PARAM_DECAY /\ ev.value = 64
    /\ global_decay = RInt(65)
    /\ global_led_gain = Rat(64, 127)
    /\ \E i \in 0 .. LEDS - 1 : led_map[i].value_r = RInt(1)

(* C9: store(v, ptr, 255) stores a byte in 0..255: 0 for v below 0, 255 *)
(* for v above 1, and the integer part of 255 * v between, which is 127 *)
(* for v = 1/2.                                                         *)
C9_StoreClamps ==
    res # -1 =>
        /\ res \in 0 .. 255
        /\ arg.n < 0 => res = 0
        /\ arg.n > arg.d => res = 255
        /\ (0 <= arg.n /\ arg.n <= arg.d) =>
               /\ res * arg.d <= 255 * arg.n
               /\ 255 * arg.n < (res + 1) * arg.d
        /\ arg = [n |-> 1, d |-> 2] => res = 127

(* C9's case: store(-5, ...) has stored 0. *)
C9_Witness == arg = [n |-> -5, d |-> 1] /\ res = 0

RAbs(a) == [n |-> Abs(a.n), d |-> a.d]

(* One channel's step from v to v2 with target t and decay k. *)
Toward(v, v2, t, k) ==
    IF k = 1
    THEN v2 = t
    ELSE /\ RSub(t, v).n * RSub(t, v2).n >= 0
         /\ RLe(RAbs(RSub(t, v2)), RAbs(RSub(t, v)))
         /\ RSub(t, v).n # 0 => RSub(t, v2).n # 0

(* C10: with a constant target and a decay k > 1, a call of update      *)
(* moves each channel of the light toward its target: the distance does *)
(* not grow and the value does not cross the target; with k = 1 the     *)
(* channel is at its target after one call.                             *)
C10_DecayMonotone ==
    [][ res' = res + 1
            => LET w == arg.which
                   k == global_decay.n
               IN  /\ global_decay.d = 1
                   /\ Toward(led_map[w].value_i, led_map'[w].value_i, arg.i, k)
                   /\ Toward(led_map[w].value_r, led_map'[w].value_r, arg.r, k)
                   /\ Toward(led_map[w].value_g, led_map'[w].value_g, arg.g, k)
                   /\ Toward(led_map[w].value_b, led_map'[w].value_b, arg.b, k) ]_vars

(* C10's case: two calls with decay 2 have taken red from 0 to 3/4 on   *)
(* its way to 1.                                                        *)
C10_Witness ==
    /\ res = 2
    /\ global_decay = RInt(2)
    /\ arg.r = RInt(1)
    /\ led_map[arg.which].value_r = Rat(3, 4)
    /\ led_map[arg.which].value_b = Rat(1, 4)

(* The order of the write loop's steps. *)
Order ==
    { << "convert", "write" >>, << "write", "sleep" >>, << "write", "halted" >>,
      << "sleep", "spot" >>, << "spot", "leds" >>, << "spot", "count" >>,
      << "leds", "count" >>, << "count", "convert" >> }

ZeroUniverse == [c \in 0 .. UNIVERSE - 1 |-> 0]

(* The pixel a pass samples for light w when the cursor is at p. *)
Sampled(p, w) == HEADER_PIXEL(wrap(p + 4 * w))

(* C11, as the claim states it: a tick renders, then sends; so when    *)
(* frame n is handed to the transport the render pass of tick n has    *)
(* been made, for the first frame too.                                 *)
C11_RenderThenSend ==
    [][ sends' # sends => ticks = Len(sends') ]_vars

(* C11, amended: a pass of the loop encodes, sends, sleeps, advances   *)
(* the cursor, fills the spot channels, then samples, decays and       *)
(* stores each light.  Frame n encodes the universe as the pass after  *)
(* frame n - 1 left it, and the first frame the initial universe of    *)
(* zeros; the lights are sampled at the cursor as already advanced in  *)
(* the same pass.                                                      *)
C11_SendThenRender ==
    [][ /\ wpc' # wpc => << wpc, wpc' >> \in Order
        /\ sends' # sends =>
               /\ wpc = "write"
               /\ ticks = Len(sends)
               /\ martin = convert(buffer)
               /\ sends = << >> => buffer = ZeroUniverse
        /\ ticks' # ticks =>
               /\ wpc = "sleep" /\ wpc' = "spot"
               /\ ticks' = Len(sends)
               /\ HAVE_PICTURE => image_data' = wrap(image_data + random_value)
        /\ (wpc = "leds" /\ x' # x) =>
               /\ UNCHANGED image_data
               /\ led_map'[x].value_r =
                      decay_step(led_map[x].value_r,
                                 Rat(Sampled(image_data, x)[1], 255))
               /\ led_map'[x].value_b =
                      decay_step(led_map[x].value_b,
                                 Rat(Sampled(image_data, x)[3], 255)) ]_vars

(* C11's case: the second frame is ready after a pass that moved the   *)
(* cursor and then sampled the lights there.                           *)
C11_Witness ==
    /\ wpc = "write"
    /\ Len(sends) = 1
    /\ ticks = 1
    /\ HAVE_PICTURE
    /\ image_data # 0
    /\ led_map[0].value_r # Rat(Sampled(0, 0)[1], 255 * 3)
    /\ martin # convert(ZeroUniverse)

(* The target of light w in a pass with the cursor at p: the pixel     *)
(* there, or black when there is no image.                             *)
Target(p, w) == IF HAVE_PICTURE THEN Sampled(p, w) ELSE << 0, 0, 0 >>

(* C12, as the claim states it: with or without the image, a pass goes *)
(* from the spot channels to the loop over the lights, and there each  *)
(* light takes a decay step toward its target, black without the       *)
(* image, and its channels of the universe are stored from its values; *)
(* so a triggered light's red leaves 1 in the next pass.               *)
C12_DecaysWithoutImage ==
    [][ /\ (wpc = "spot" /\ wpc' # "spot") => wpc' = "leds"
        /\ (wpc = "leds" /\ x' # x) =>
               /\ led_map'[x].value_r =
                      decay_step(led_map[x].value_r, Rat(Target(image_data, x)[1], 255))
               /\ buffer'[offset_r(x)] = store(led_map'[x].value_r, STORE_MAX) ]_vars

(* usleep(1000000 / FPS): the microseconds a pass sleeps. *)
SleepUs == 1000000 \div FPS

(* The write loop's counter step recomputes the jump size on the ticks *)
(* that are a positive multiple of 30 * FPS, which come every period   *)
(* microseconds of sleep, and on no other tick; no other step of the   *)
(* write loop changes the jump size.                                   *)
Recomputes(period) ==
        /\ (wpc = "count" /\ wpc' # wpc) =>
               IF ticks > 0 /\ ticks % (30 * FPS) = 0
               THEN /\ counter' = 0
                    /\ ticks * SleepUs = (ticks \div (30 * FPS)) * period
                    /\ HAVE_PICTURE =>
                           /\ rand_calls' = rand_calls + 2
                           /\ random_value' \in JumpSizes(global_pixel_speed)
               ELSE /\ counter' = counter + 1
                    /\ UNCHANGED << random_value, rand_calls >>
        /\ ((wpc' # wpc \/ x' # x) /\ wpc # "count") =>
               UNCHANGED << random_value, rand_calls >>

(* C13, as the claim states it: the ticks that are a positive multiple *)
(* of 30 * FPS, and so the recomputations, come every 3 seconds of     *)
(* render time.                                                        *)
C13_EveryThreeSeconds == [][Recomputes(3000000)]_vars

(* C13, amended: the ticks that are a positive multiple of 30 * FPS    *)
(* come every 30 seconds of render time at FPS = 10.                   *)
C13_EveryThirtySeconds == [][Recomputes(30000000)]_vars

(* C13's case: tick 300 has recomputed the jump size, at full speed,   *)
(* after an event had set it before.                                   *)
C13_Witness ==
    /\ ticks = 30 * FPS
    /\ wpc = "convert"
    /\ counter = 0
    /\ HAVE_PICTURE
    /\ rand_calls = 4
    /\ random_value = 4 * (width * height - 1)

(* C14: the write loop and the read loop count their failures apart    *)
(* and end apart: a receive changes nothing of the write loop, a send  *)
(* nothing of the read loop, and an event of the ALSA loop nothing of  *)
(* either; each loop ends on its own fourth failure in a row; a loop   *)
(* that has ended stays so and makes no further transport call; and    *)
(* the ALSA loop takes its next event whether the two have ended or    *)
(* not.                                                                *)
C14_IndependentHalts ==
    [][ /\ recvs' # recvs => UNCHANGED << wpc, timeout_tx, sends, ev >>
        /\ sends' # sends => UNCHANGED << rpc, timeout_rx, recvs, ev >>
        /\ ev' # ev => UNCHANGED << wpc, timeout_tx, sends, rpc, timeout_rx, recvs >>
        /\ (wpc # "halted" /\ wpc' = "halted") => FailRun(sends') = 4
        /\ (rpc # "halted" /\ rpc' = "halted") => FailRun(recvs') = 4
        /\ wpc = "halted" => (wpc' = "halted" /\ sends' = sends)
        /\ rpc = "halted" => (rpc' = "halted" /\ recvs' = recvs)
        /\ (ev = NoEvent /\ nctl < MaxChanges) => ENABLED AlsaIgnored ]_vars

(* C14's case: the read loop ended by its own four failures while the  *)
(* write loop had failed three times in a row and went on; then the    *)
(* write loop ended too, and the ALSA loop has taken an event.         *)
C14_Witness ==
    /\ rpc = "halted"
    /\ wpc = "halted"
    /\ Len(recvs) = 4
    /\ Len(sends) > 4
    /\ ev = ControllerEvent(7, 0)

(* C15: the decay is a whole number in 1..128 in every state: 3 until  *)
(* a controller event has come, and value + 1 once a decay event of    *)
(* value in 0..127 is handled; so update() never divides by less than  *)
(* 1.                                                                  *)
C15_DecayAtLeastOne ==
    /\ global_decay.d = 1
    /\ global_decay.n \in 1 .. 128
    /\ nctl = 0 => global_decay = RInt(3)
    /\ (ev.type = "CONTROLLER" /\ ev.param = PARAM_DECAY) =>
           /\ ev.value \in 0 .. 127
           /\ global_decay = RInt(ev.value + 1)

(* C15's case: the second event taken is a decay event of value 0 and *)
(* leaves the decay at 1.                                              *)
C15_Witness ==
    /\ ev.type = "CONTROLLER" /\ ev.param = PARAM_DECAY /\ ev.value = 0
    /\ nctl = 2
    /\ global_decay = RInt(1)

TriggerInMiddle ==
    /\ wpc = "leds"
    /\ tmp.pc = "write"
    /\ tmp.ch \in 2 .. Len(Channels)
    /\ led_map[x][Channels[tmp.ch]] # tmp.lhs

Sent(c) == martin[(c \div 62) * 64 + 2 + (c % 62) + 1]

(* The frame about to be sent has its spot range, or its intensity     *)
(* channels, rendered from the present value of the gain.              *)
SpotFresh ==
    \A c \in SPOT_START .. SPOT_END - 1 :
        Sent(c) = store(global_spot_gain, STORE_MAX)

LedFresh ==
    \A w \in 0 .. LEDS - 1 :
        Sent(offset_i(w)) = store(RMul(led_map[w].value_i, global_led_gain), STORE_MAX)

(* C17: after a write of spot_gain or led_gain, at most one frame sent *)
(* afterwards is not rendered entirely from the new value: when at     *)
(* least one frame has been sent since the last write of a gain, the   *)
(* frame about to be sent is rendered from that gain alone.            *)
C17_BoundedStaleness ==
    wpc = "write" =>
        /\ mark.spot < Len(sends) => SpotFresh
        /\ mark.led < Len(sends) => LedFresh

(* C17's case: spot_gain was written after the first frame, a frame    *)
(* has been sent since, and the next frame carries the new value in    *)
(* its spot range.                                                     *)
C17_Witness ==
    /\ wpc = "write"
    /\ mark.spot >= 1
    /\ mark.spot < Len(sends)
    /\ global_spot_gain # RInt(0)
    /\ Sent(SPOT_START) = store(global_spot_gain, STORE_MAX)
    /\ Sent(SPOT_START) # 0
    /\ Sent(SPOT_END - 1) = Sent(SPOT_START)

(* C18, as the claim states it: in every frame the 20 spot channels    *)
(* all carry the same byte, also when spot_gain is written while the   *)
(* range is filled.                                                    *)
C18_Uniform ==
    wpc = "write" =>
        \A c \in SPOT_START .. SPOT_END - 1 : Sent(c) = Sent(SPOT_START)

(* The places of the spot range of the frame where the byte changes    *)
(* from one channel to the next.                                       *)
Changes == { c \in SPOT_START .. SPOT_END - 2 : Sent(c) # Sent(c + 1) }

(* The bytes that store makes of the values spot_gain can hold. *)
SpotBytes == { store(Rat(v, 127), STORE_MAX) : v \in 0 .. 127 }

(* C18, amended: every spot channel of a frame carries store of a      *)
(* value of spot_gain; the byte changes along the range at most as     *)
(* often as controller events were taken; and the 20 channels all      *)
(* carry store(spot_gain) when spot_gain was not written since the     *)
(* last frame was sent.                                                *)
C18_UniformUnlessWritten ==
    wpc = "write" =>
        /\ \A c \in SPOT_START .. SPOT_END - 1 : Sent(c) \in SpotBytes
        /\ Cardinality(Changes) <= nctl
        /\ mark.spot < Len(sends) =>
              /\ Changes = {}
              /\ Sent(SPOT_START) = store(global_spot_gain, STORE_MAX)

(* C18's case: spot_gain was written while the range was filled, and   *)
(* the frame carries the old byte in its first spot channel and the    *)
(* new one in its last.                                                *)
C18_Witness ==
    /\ wpc = "write"
    /\ mark.spot = Len(sends)
    /\ Cardinality(Changes) = 1
    /\ Sent(SPOT_START) = 0
    /\ Sent(SPOT_END - 1) = store(global_spot_gain, STORE_MAX)
    /\ Sent(SPOT_END - 1) # 0

(* The offsets of the lights' fields, and the channels that the        *)
(* rendering steps write. *)
LightOffsets ==
    UNION { { offset_i(w), offset_r(w), offset_g(w), offset_b(w) } : w \in 0 .. LEDS - 1 }

Rendered == (SPOT_START .. SPOT_END - 1) \cup LightOffsets

(* C20: the rendering steps write only the spot channels 0..19 and the *)
(* 32 offsets of the lights, which are pairwise distinct and lie in    *)
(* 20..511; every other channel is 0 in the universe and in every      *)
(* frame; and with an image the cursor stays in [0, image_size) with   *)
(* a jump that is a multiple of 4 smaller than image_size.             *)
C20_State ==
    /\ Cardinality(LightOffsets) = 4 * LEDS
    /\ LightOffsets \subseteq SPOT_END .. UNIVERSE - 1
    /\ \A c \in (0 .. UNIVERSE - 1) \ Rendered : buffer[c] = 0
    /\ wpc = "write" => \A c \in (0 .. UNIVERSE - 1) \ Rendered : Sent(c) = 0
    /\ HAVE_PICTURE =>
          /\ 0 <= image_data /\ image_data < image_size
          /\ random_value % 4 = 0
          /\ 0 <= random_value /\ random_value < image_size

C20_Step ==
    \A c \in 0 .. UNIVERSE - 1 : buffer'[c] # buffer[c] => c \in Rendered

C20_WritesOnlyRendered == []C20_State /\ [][C20_Step]_vars

(* C20's case: a frame with a light's channel lit and the cursor       *)
(* brought back into the image by an advance that passed its end.      *)
C20_Witness ==
    /\ wpc = "write"
    /\ Len(sends) >= 2
    /\ \E w \in 0 .. LEDS - 1 : Sent(offset_r(w)) # 0
    /\ random_value # 0
    /\ rand_calls = 2
    /\ image_data = 2 * random_value - image_size

====
